---- MODULE Spec2Model ----
(***************************************************************************)
(* A model of tinyber/codec.py: the BER reader (class Buf), the writer     *)
(* (class Encoder) and its TLV scope (class EncoderContext).               *)
(*                                                                         *)
(* Bytes are integers 0..255, a Python str is a sequence of bytes.  The    *)
(* cursor `pos` and the bound `end` keep Python's 0-based indexing: the    *)
(* byte the code reads as data[pos] is data[pos + 1] here.                 *)
(***************************************************************************)
EXTENDS Integers, Sequences, FiniteSets, TLC

VARIABLES
    data,     \* Buf.data: the byte string every reader of the run views
    bufs,     \* the live Buf objects: a sequence of [pos, end]
    ret,      \* the last reader call: its arguments and its outcome
    r,        \* Encoder.r: the chunks, newest first
    length,   \* Encoder.length
    ctx,      \* the open EncoderContext objects, innermost first: [tag, pos]
    call      \* the last writer call: its name and its arguments

vars == <<data, bufs, ret, r, length, ctx, call>>

----------------------------------------------------------------------------
(* class FLAG, class TAG *)

FLAG_STRUCTURED == 32
TAG_BOOLEAN == 1
TAG_INTEGER == 2
TAG_OCTETSTRING == 4
TAG_ENUMERATED == 10
TAG_SEQUENCE == 16 + FLAG_STRUCTURED

----------------------------------------------------------------------------
(* Bounds of the model *)

MaxBufs == 2        \* live readers kept per run
MaxPop == 2         \* largest nbytes / length argument a caller passes
MaxInt == 300       \* emit_integer is tried on -MaxInt..MaxInt and the boundary values
MaxLength == 300    \* emit_length is tried on 0..MaxLength and the boundary values
MaxDepth == 2       \* TLV scopes open at once
MaxChunks == 4      \* chunks in Encoder.r before a new emission or scope is refused

----------------------------------------------------------------------------
(* Outcomes of a reader call.  err is "ok" or the name of the exception     *)
(* raised; pos is the reader's cursor afterwards (an exception does not     *)
(* roll the cursor back); rd is the set of 0-based indices of data read.    *)
(* A returned integer is val; none says that the call returned None; wide   *)
(* says that the integer returned is 2^31 or more, which val cannot hold.   *)

NoBuf == [pos |-> 0, end |-> 0]

Out(err, pos, rd) ==
    [err |-> err, pos |-> pos, rd |-> rd, val |-> 0, wide |-> FALSE,
     none |-> FALSE, bytes |-> <<>>, sub |-> NoBuf, hasSub |-> FALSE]

\* Buf.__init__ (data, pos=0, end=None)
NewBuf(d) == [pos |-> 0, end |-> Len(d)]

\* Buf.pop_byte
pop_byte(d, b) ==
    IF b.pos + 1 > b.end
    THEN Out("Underflow", b.pos, {})
    ELSE IF b.pos >= Len(d)
    THEN Out("IndexError", b.pos, {b.pos})
    ELSE [Out("ok", b.pos + 1, {b.pos}) EXCEPT !.val = d[b.pos + 1]]

\* Buf.pop
pop(d, b, nbytes) ==
    IF b.pos + nbytes > b.end
    THEN Out("Underflow", b.pos, {})
    ELSE [Out("ok", b.pos + nbytes, {}) EXCEPT
              !.sub = [pos |-> b.pos, end |-> b.pos + nbytes],
              !.hasSub = TRUE]

\* Buf.pop_bytes: data[pos:pos+nbytes] is a slice, which Python clips to len(data)
pop_bytes(d, b, nbytes) ==
    IF b.pos + nbytes > b.end
    THEN Out("Underflow", b.pos, {})
    ELSE LET hi == IF b.pos + nbytes > Len(d) THEN Len(d) ELSE b.pos + nbytes
         IN  [Out("ok", b.pos + nbytes, b.pos .. (hi - 1)) EXCEPT
                  !.bytes = SubSeq(d, b.pos + 1, hi)]

\* Buf.done
Buf_done(b) == b.pos = b.end

\* A Python int has no width.  The loops that fold bytes into n keep n as its
\* big-endian base-256 digits; Wide says that n is 2^31 or more, IntOf is its
\* value otherwise.
Wide(ds) ==
    \/ \E i \in 1 .. (Len(ds) - 4) : ds[i] # 0
    \/ Len(ds) >= 4 /\ ds[Len(ds) - 3] >= 128

RECURSIVE IntOf(_)
IntOf(ds) == IF ds = <<>> THEN 0
             ELSE IntOf(SubSeq(ds, 1, Len(ds) - 1)) * 256 + ds[Len(ds)]

Returned(pos, rd, ds) ==
    IF Wide(ds)
    THEN [Out("ok", pos, rd) EXCEPT !.wide = TRUE]
    ELSE [Out("ok", pos, rd) EXCEPT !.val = IntOf(ds)]

\* Buf.get_length, the loop `while lol: n = (n << 8) | self.pop_byte()`.
\* The loop never changes lol.
RECURSIVE get_length_loop(_, _, _, _, _)
get_length_loop(d, b, lol, n, rd) ==
    IF lol = 0
    THEN Returned(b.pos, rd, n)
    ELSE LET p == pop_byte(d, b)
         IN  IF p.err # "ok"
             THEN Out(p.err, p.pos, rd \cup p.rd)
             ELSE get_length_loop(d, [b EXCEPT !.pos = p.pos], lol,
                                  Append(n, p.val), rd \cup p.rd)

\* get_length with the length-of-length limit off by one (lol > 5)
get_length_limit5(d, b) ==
    LET p == pop_byte(d, b)
    IN  IF p.err # "ok" THEN p
        ELSE IF p.val < 128 THEN p
        ELSE IF p.val = 128 THEN Out("IndefiniteLength", p.pos, p.rd)
        ELSE LET lol == p.val % 128
             IN  IF lol > 5
                 THEN Out("ElementTooLarge", p.pos, p.rd)
                 ELSE get_length_loop(d, [b EXCEPT !.pos = p.pos], lol, <<>>, p.rd)

\* Buf.get_length
get_length(d, b) ==
    LET p == pop_byte(d, b)
    IN  IF p.err # "ok" THEN p
        ELSE IF p.val < 128 THEN p
        ELSE IF p.val = 128 THEN Out("IndefiniteLength", p.pos, p.rd)
        ELSE LET lol == p.val % 128
             IN  IF lol > 4
                 THEN Out("ElementTooLarge", p.pos, p.rd)
                 ELSE get_length_loop(d, [b EXCEPT !.pos = p.pos], lol, <<>>, p.rd)

\* Buf.check
check(d, b, expected) ==
    LET p == pop_byte(d, b)
    IN  IF p.err # "ok" THEN p
        ELSE IF p.val # expected THEN Out("UnexpectedType", p.pos, p.rd)
        ELSE p

\* Buf.next
next(d, b, expected) ==
    LET c == check(d, b, expected)
    IN  IF c.err # "ok" THEN c
        ELSE LET l == get_length(d, [b EXCEPT !.pos = c.pos])
             IN  IF l.err # "ok" THEN Out(l.err, l.pos, c.rd \cup l.rd)
                 ELSE LET s == pop(d, [b EXCEPT !.pos = l.pos], l.val)
                      IN  [s EXCEPT !.rd = c.rd \cup l.rd]

\* Buf.get_integer, the loop of the non-negative branch
RECURSIVE get_integer_loop(_, _, _, _, _)
get_integer_loop(d, b, len, n, rd) ==
    IF len = 0
    THEN Returned(b.pos, rd, n)
    ELSE LET p == pop_byte(d, b)
         IN  IF p.err # "ok"
             THEN Out(p.err, p.pos, rd \cup p.rd)
             ELSE get_integer_loop(d, [b EXCEPT !.pos = p.pos], len - 1,
                                   Append(n, p.val), rd \cup p.rd)

\* Buf.get_integer.  In the branch of a first byte with its high bit set the
\* code computes n - 0x100 and reaches the end of the function: the call
\* returns None, having read one byte.
get_integer(d, b, len) ==
    IF len = 0
    THEN Out("ok", b.pos, {})
    ELSE LET p == pop_byte(d, b)
         IN  IF p.err # "ok" THEN p
             ELSE IF p.val >= 128
             THEN [Out("ok", p.pos, p.rd) EXCEPT !.none = TRUE]
             ELSE get_integer_loop(d, [b EXCEPT !.pos = p.pos], len - 1,
                                   <<p.val>>, p.rd)

\* A caller's bound: None, or an integer.
None == [some |-> FALSE, v |-> 0]
Some(v) == [some |-> TRUE, v |-> v]

\* r < k and r > k for the integer or None that get_integer returned.  Python 2
\* orders None before every integer: None < k, and never None > k.
PyLess(o, k) == IF o.none THEN TRUE ELSE IF o.wide THEN FALSE ELSE o.val < k
PyGreater(o, k) == IF o.none THEN FALSE ELSE IF o.wide THEN TRUE ELSE o.val > k

\* Buf.next_INTEGER
next_INTEGER(d, b, min_val, max_val) ==
    LET c == check(d, b, TAG_INTEGER)
    IN  IF c.err # "ok" THEN c
        ELSE LET l == get_length(d, [b EXCEPT !.pos = c.pos])
             IN  IF l.err # "ok" THEN Out(l.err, l.pos, c.rd \cup l.rd)
                 ELSE LET g == get_integer(d, [b EXCEPT !.pos = l.pos], l.val)
                          rd == c.rd \cup l.rd \cup g.rd
                      IN  IF g.err # "ok" THEN Out(g.err, g.pos, rd)
                          ELSE IF min_val.some /\ PyLess(g, min_val.v)
                          THEN Out("ConstraintViolation", g.pos, rd)
                          ELSE IF max_val.some /\ PyGreater(g, max_val.v)
                          THEN Out("ConstraintViolation", g.pos, rd)
                          ELSE [g EXCEPT !.rd = rd]

\* Buf.next_OCTET_STRING
next_OCTET_STRING(d, b, min_size, max_size) ==
    LET c == check(d, b, TAG_OCTETSTRING)
    IN  IF c.err # "ok" THEN c
        ELSE LET l == get_length(d, [b EXCEPT !.pos = c.pos])
             IN  IF l.err # "ok" THEN Out(l.err, l.pos, c.rd \cup l.rd)
                 ELSE LET g == pop_bytes(d, [b EXCEPT !.pos = l.pos], l.val)
                          rd == c.rd \cup l.rd \cup g.rd
                      IN  IF g.err # "ok" THEN Out(g.err, g.pos, rd)
                          ELSE IF min_size.some /\ Len(g.bytes) < min_size.v
                          THEN Out("ConstraintViolation", g.pos, rd)
                          ELSE IF max_size.some /\ Len(g.bytes) > max_size.v
                          THEN Out("ConstraintViolation", g.pos, rd)
                          ELSE [g EXCEPT !.rd = rd]

\* Buf.next_BOOLEAN: the result is val = 1 for True, 0 for False
next_BOOLEAN(d, b) ==
    LET c == check(d, b, TAG_BOOLEAN)
    IN  IF c.err # "ok" THEN c
        ELSE LET p == pop_byte(d, [b EXCEPT !.pos = c.pos])
             IN  IF p.err # "ok" THEN Out(p.err, p.pos, c.rd \cup p.rd)
                 ELSE [p EXCEPT !.val = IF p.val # 0 THEN 1 ELSE 0,
                                !.rd = c.rd \cup p.rd]

\* Buf.next_ENUMERATED
next_ENUMERATED(d, b) ==
    LET c == check(d, b, TAG_ENUMERATED)
    IN  IF c.err # "ok" THEN c
        ELSE LET l == get_length(d, [b EXCEPT !.pos = c.pos])
             IN  IF l.err # "ok" THEN Out(l.err, l.pos, c.rd \cup l.rd)
                 ELSE LET g == get_integer(d, [b EXCEPT !.pos = l.pos], l.val)
                      IN  [g EXCEPT !.rd = c.rd \cup l.rd \cup g.rd]

\* Buf.next_APPLICATION: FLAG has no attribute APPLICAITON, so the test of the
\* tag raises AttributeError once the tag byte is read.
next_APPLICATION(d, b) ==
    LET p == pop_byte(d, b)
    IN  IF p.err # "ok" THEN p
        ELSE Out("AttributeError", p.pos, p.rd)

----------------------------------------------------------------------------
(* class Encoder.  A writer is [r, length]. *)

\* Encoder.__init__
NewEncoder == [r |-> <<>>, length |-> 0]

\* Encoder.emit
emit(w, d) == [r |-> <<d>> \o w.r, length |-> w.length + Len(d)]

\* Encoder.emit_length, the loop `while n: r.insert (0, chr (n & 0xff)); n >>= 8`
RECURSIVE emit_length_loop(_, _)
emit_length_loop(n, rr) ==
    IF n = 0 THEN rr
    ELSE emit_length_loop(n \div 256, <<n % 256>> \o rr)

\* Encoder.emit_length.  b0 is 0x80 | ((n-1) & 0x7f): it is computed from the
\* length n itself.
emit_length(w, n) ==
    IF n < 128
    THEN emit(w, <<n>>)
    ELSE LET b0 == 128 + ((n - 1) % 128)
         IN  emit(w, <<b0>> \o emit_length_loop(n, <<>>))

\* Encoder.done: ''.join (self.r)
RECURSIVE Encoder_done(_)
Encoder_done(rr) == IF rr = <<>> THEN <<>> ELSE Head(rr) \o Encoder_done(Tail(rr))

\* emit_integer's loop without the 0x00 byte before a high bit that is set
RECURSIVE emit_integer_loop_nopad(_, _, _, _, _)
emit_integer_loop_nopad(n, n0, byte, i, rr) ==
    LET n1 == n \div 256
    IN  IF n0 = n1
        THEN IF n1 = -1 /\ (byte < 128 \/ i = 0)
             THEN <<255>> \o rr
             ELSE IF n1 = 0 /\ i = 0
             THEN <<0>> \o rr
             ELSE rr
        ELSE LET byte1 == n0 % 256
             IN  emit_integer_loop_nopad(n1, n1, byte1, i + 1, <<byte1>> \o rr)

\* Encoder.emit_integer, the loop `while 1`.  n >> 8 is the arithmetic shift,
\* n \div 256 (which rounds down); `not byte & 0x80` is not (byte & 0x80).
RECURSIVE emit_integer_loop(_, _, _, _, _)
emit_integer_loop(n, n0, byte, i, rr) ==
    LET n1 == n \div 256
    IN  IF n0 = n1
        THEN IF n1 = -1 /\ (byte < 128 \/ i = 0)
             THEN <<255>> \o rr
             ELSE IF n1 = 0 /\ byte >= 128
             THEN <<0>> \o rr
             ELSE rr
        ELSE LET byte1 == n0 % 256
             IN  emit_integer_loop(n1, n1, byte1, i + 1, <<byte1>> \o rr)

\* Encoder.emit_integer
emit_integer(w, n) == emit(w, emit_integer_loop(n, n, 128, 0, <<>>))

\* Encoder.TLV / EncoderContext.__init__
TLV(w, tag) == [tag |-> tag, pos |-> w.length]

\* EncoderContext.__exit__
TLV_exit(w, c) == emit(emit_length(w, w.length - c.pos), <<c.tag>>)

\* Encoder.emit_INTEGER
emit_INTEGER(w, n) == TLV_exit(emit_integer(w, n), TLV(w, TAG_INTEGER))

----------------------------------------------------------------------------
(* Inputs *)

\* a chunk of k bytes
Block(k) == [i \in 1 .. k |-> 97]

\* The byte strings handed to emit: empty, one byte, and sizes around the
\* short-form limit of a length.
Chunks == {Block(0), Block(1), Block(126), Block(128)}

MinInt32 == -2147483647 - 1

\* The integers handed to emit_integer.
IntInputs == (-MaxInt .. MaxInt) \cup
             {MinInt32, -32769, -32768, -129, -128, -1, 0, 1, 127, 128, 255, 256,
              32767, 32768, 65535, 65536, 8388607, 8388608, 2147483647}

\* The lengths handed to emit_length.
LenInputs == (0 .. MaxLength) \cup {65535, 65536, 16777215, 16777216, 2147483647}

\* The tags a caller expects.
Tags == {TAG_INTEGER, TAG_OCTETSTRING, TAG_SEQUENCE}

\* The bounds a caller passes to next_INTEGER and next_OCTET_STRING.
Limits == {None, Some(-2), Some(2)}

\* Well-formed TLVs: INTEGER (0, 2, 127, -1, -2, -128, 128, -129),
\* ENUMERATED, OCTET STRING, BOOLEAN, SEQUENCE.
WellFormed ==
    { <<2, 1, 0>>, <<2, 1, 2>>, <<2, 1, 127>>, <<2, 1, 255>>, <<2, 1, 254>>,
      <<2, 1, 128>>, <<2, 2, 0, 128>>, <<2, 2, 255, 127>>,
      <<10, 1, 3>>, <<10, 1, 255>>,
      <<4, 0>>, <<4, 2, 97, 98>>, <<4, 3, 97, 98, 99>>,
      <<1, 1, 0>>, <<1, 1, 255>>,
      <<48, 3, 2, 1, 5>> }

\* Long-form lengths, alone and in a TLV.
LongForm ==
    { <<130, 1, 0>>, <<129, 2>>, <<132, 0, 0, 1, 0>>, <<4, 129, 1, 97>>,
      <<2, 129, 1, 5>> }

\* Indefinite and oversized lengths, truncated TLVs, an unknown tag.
Malformed ==
    { <<>>, <<128>>, <<2, 128>>, <<133>>, <<4, 255>>,
      <<2, 2, 255>>, <<2, 2, 5>>, <<4, 3, 97>>, <<2>>, <<3, 0>> }

\* Two TLVs one after the other, and a TLV with a byte after it.
Followed ==
    { <<2, 1, 5, 2, 1, 7>>, <<2, 1, 255, 2, 1, 7>>, <<2, 2, 255, 127, 2, 1, 7>>,
      <<10, 1, 3, 10, 1, 4>>, <<1, 1, 0, 1, 1, 255>>, <<130, 1, 0, 9>>,
      <<4, 1, 97, 0>> }

\* The byte strings a reader is created over.
Inputs == WellFormed \cup LongForm \cup Malformed \cup Followed

\* Every first length byte, alone and after a tag, with nothing or two bytes
\* after it.
HeaderInputs ==
    {h \o t : h \in {<<b>> : b \in 0 .. 255} \cup
                     {<<tag, b>> : tag \in {TAG_INTEGER, TAG_OCTETSTRING,
                                            TAG_ENUMERATED, TAG_SEQUENCE},
                                  b \in 0 .. 255},
              t \in {<<>>, <<1, 0>>}}

\* The tags of the scopes a caller opens, and the integers of emit_INTEGER.
ScopeTags == {TAG_OCTETSTRING, TAG_SEQUENCE}
ScopeInts == {0, 128, -129}

----------------------------------------------------------------------------
(* State *)

NoRet == [op |-> "none", buf |-> 0, arg |-> 0, lo |-> None, hi |-> None,
          pos0 |-> 0, end |-> 0, out |-> Out("ok", 0, {})]

NoCall == [op |-> "none", n |-> 0, tag |-> 0, start |-> 0, before |-> 0]

\* A run of the reader starts with Buf (data) over an input.
InitReader ==
    /\ data \in Inputs
    /\ bufs = <<NewBuf(data)>>
    /\ ret = NoRet
    /\ r = NewEncoder.r
    /\ length = NewEncoder.length
    /\ ctx = <<>>
    /\ call = NoCall

\* The same, over every first length byte.
InitHeader ==
    /\ data \in HeaderInputs
    /\ bufs = <<NewBuf(data)>>
    /\ ret = NoRet
    /\ r = NewEncoder.r
    /\ length = NewEncoder.length
    /\ ctx = <<>>
    /\ call = NoCall

\* A run of the writer starts with Encoder ().
InitWriter ==
    /\ data = <<>>
    /\ bufs = <<>>
    /\ ret = NoRet
    /\ r = NewEncoder.r
    /\ length = NewEncoder.length
    /\ ctx = <<>>
    /\ call = NoCall

----------------------------------------------------------------------------
(* Reader calls.  The call is made on reader i; its outcome o moves the      *)
(* cursor, and a reader it returns is kept while there is room for it.       *)

Called(i, op, arg, lo, hi, o) ==
    /\ bufs' = LET moved == [bufs EXCEPT ![i].pos = o.pos]
               IN  IF o.hasSub /\ Len(bufs) < MaxBufs
                   THEN Append(moved, o.sub)
                   ELSE moved
    /\ ret' = [op |-> op, buf |-> i, arg |-> arg, lo |-> lo, hi |-> hi,
               pos0 |-> bufs[i].pos, end |-> bufs[i].end, out |-> o]
    /\ UNCHANGED <<data, r, length, ctx, call>>

PopByte ==
    \E i \in 1 .. Len(bufs) :
        Called(i, "pop_byte", 0, None, None, pop_byte(data, bufs[i]))

Pop ==
    \E i \in 1 .. Len(bufs), n \in 0 .. MaxPop :
        Called(i, "pop", n, None, None, pop(data, bufs[i], n))

PopBytes ==
    \E i \in 1 .. Len(bufs), n \in 0 .. MaxPop :
        Called(i, "pop_bytes", n, None, None, pop_bytes(data, bufs[i], n))

GetLength ==
    \E i \in 1 .. Len(bufs) :
        Called(i, "get_length", 0, None, None, get_length(data, bufs[i]))

Check ==
    \E i \in 1 .. Len(bufs), t \in Tags :
        Called(i, "check", t, None, None, check(data, bufs[i], t))

NextTLV ==
    \E i \in 1 .. Len(bufs), t \in Tags :
        Called(i, "next", t, None, None, next(data, bufs[i], t))

GetInteger ==
    \E i \in 1 .. Len(bufs), n \in 0 .. MaxPop :
        Called(i, "get_integer", n, None, None, get_integer(data, bufs[i], n))

\* buf.next_INTEGER (lo, hi), for lo and hi in L
NextINTEGEROf(L) ==
    \E i \in 1 .. Len(bufs), lo \in L, hi \in L :
        Called(i, "next_INTEGER", 0, lo, hi, next_INTEGER(data, bufs[i], lo, hi))

NextINTEGER == NextINTEGEROf(Limits)

\* buf.next_OCTET_STRING (lo, hi), for lo and hi in L
NextOCTETSTRINGOf(L) ==
    \E i \in 1 .. Len(bufs), lo \in L, hi \in L :
        Called(i, "next_OCTET_STRING", 0, lo, hi,
               next_OCTET_STRING(data, bufs[i], lo, hi))

NextOCTETSTRING == NextOCTETSTRINGOf(Limits)

NextBOOLEAN ==
    \E i \in 1 .. Len(bufs) :
        Called(i, "next_BOOLEAN", 0, None, None, next_BOOLEAN(data, bufs[i]))

NextENUMERATED ==
    \E i \in 1 .. Len(bufs) :
        Called(i, "next_ENUMERATED", 0, None, None, next_ENUMERATED(data, bufs[i]))

NextAPPLICATION ==
    \E i \in 1 .. Len(bufs) :
        Called(i, "next_APPLICATION", 0, None, None, next_APPLICATION(data, bufs[i]))

NextReader ==
    \/ PopByte
    \/ Pop
    \/ PopBytes
    \/ GetLength
    \/ Check
    \/ NextTLV
    \/ GetInteger
    \/ NextINTEGER
    \/ NextOCTETSTRING
    \/ NextBOOLEAN
    \/ NextENUMERATED
    \/ NextAPPLICATION

SpecReader == InitReader /\ [][NextReader]_vars

\* The calls that decode a length, over HeaderInputs.
HeaderNextINTEGER == NextINTEGEROf({None})

HeaderNextOCTETSTRING == NextOCTETSTRINGOf({None})

NextHeader ==
    \/ GetLength
    \/ NextTLV
    \/ HeaderNextINTEGER
    \/ HeaderNextOCTETSTRING
    \/ NextENUMERATED

SpecHeader == InitHeader /\ [][NextHeader]_vars

----------------------------------------------------------------------------
(* Writer calls *)

Wrote(w, c) ==
    /\ r' = w.r
    /\ length' = w.length
    /\ call' = c
    /\ UNCHANGED <<data, bufs, ret>>

Writer == [r |-> r, length |-> length]

\* enc.emit (d)
Emit ==
    \E d \in Chunks :
        /\ Len(r) < MaxChunks
        /\ Wrote(emit(Writer, d), [NoCall EXCEPT !.op = "emit", !.n = Len(d)])
        /\ UNCHANGED ctx

\* enc.emit_integer (n), for n in S
EmitIntegerOf(S) ==
    \E n \in S :
        /\ Wrote(emit_integer(Writer, n), [NoCall EXCEPT !.op = "emit_integer", !.n = n])
        /\ UNCHANGED ctx

\* enc.emit_length (n), for n in S
EmitLengthOf(S) ==
    \E n \in S :
        /\ Wrote(emit_length(Writer, n), [NoCall EXCEPT !.op = "emit_length", !.n = n])
        /\ UNCHANGED ctx

\* with enc.TLV (tag): entering the block
TLVEnter ==
    \E t \in ScopeTags :
        /\ Len(ctx) < MaxDepth
        /\ Len(r) < MaxChunks
        /\ ctx' = <<TLV(Writer, t)>> \o ctx
        /\ call' = [NoCall EXCEPT !.op = "TLV", !.tag = t, !.start = length]
        /\ UNCHANGED <<data, bufs, ret, r, length>>

\* with enc.TLV (tag): leaving the block of the innermost open scope
TLVExit ==
    /\ ctx # <<>>
    /\ Wrote(TLV_exit(Writer, Head(ctx)),
             [op |-> "TLV.__exit__", n |-> 0, tag |-> Head(ctx).tag,
              start |-> Head(ctx).pos, before |-> length])
    /\ ctx' = Tail(ctx)

\* enc.emit_INTEGER (n)
EmitINTEGER ==
    \E n \in ScopeInts :
        /\ Len(r) < MaxChunks
        /\ Wrote(emit_INTEGER(Writer, n),
                 [op |-> "emit_INTEGER", n |-> n, tag |-> TAG_INTEGER,
                  start |-> length, before |-> emit_integer(Writer, n).length])
        /\ UNCHANGED ctx

NextWriter ==
    \/ Emit
    \/ TLVEnter
    \/ TLVExit
    \/ EmitINTEGER

SpecWriter == InitWriter /\ [][NextWriter]_vars

----------------------------------------------------------------------------
(* Encode, then decode what was encoded *)

CodecEmitInteger == r = <<>> /\ EmitIntegerOf(IntInputs)

CodecEmitLength == r = <<>> /\ EmitLengthOf(LenInputs)

\* Buf (enc.done ())
CodecNewBuf ==
    /\ r # <<>>
    /\ bufs = <<>>
    /\ data' = Encoder_done(r)
    /\ bufs' = <<NewBuf(data')>>
    /\ UNCHANGED <<ret, r, length, ctx, call>>

\* buf.get_integer (k), k the number of bytes of the buffer
CodecGetInteger ==
    /\ bufs # <<>>
    /\ Called(1, "get_integer", Len(data), None, None,
              get_integer(data, bufs[1], Len(data)))

\* buf.get_length ()
CodecGetLength == bufs # <<>> /\ GetLength

NextCodec ==
    \/ CodecEmitInteger
    \/ CodecEmitLength
    \/ CodecNewBuf
    \/ CodecGetInteger
    \/ CodecGetLength

SpecCodec == InitWriter /\ [][NextCodec]_vars

----------------------------------------------------------------------------
(* The wire format the claims are stated against (BER, as the specification  *)
(* gives it).                                                                 *)

\* The value of big-endian bytes, unsigned.
RECURSIVE BigEndian(_)
BigEndian(bs) == IF bs = <<>> THEN 0
                 ELSE BigEndian(SubSeq(bs, 1, Len(bs) - 1)) * 256 + bs[Len(bs)]

\* The value of big-endian two's-complement bytes (at least one byte).
RECURSIVE TwosValue(_)
TwosValue(bs) ==
    IF Len(bs) = 1
    THEN (IF bs[1] >= 128 THEN bs[1] - 256 ELSE bs[1])
    ELSE TwosValue(SubSeq(bs, 1, Len(bs) - 1)) * 256 + bs[Len(bs)]

\* A length field starts at the 1-based index at of s: short form, or long
\* form 0x80 | k with 1 <= k <= 4 and its k bytes before the 0-based bound e.
WireLenValid(s, at, e) ==
    /\ at <= e
    /\ \/ s[at] < 128
       \/ /\ s[at] > 128
          /\ s[at] % 128 <= 4
          /\ at + (s[at] % 128) <= e

WireLenSize(s, at) == IF s[at] < 128 THEN 1 ELSE 1 + (s[at] % 128)

WireLenValue(s, at) ==
    IF s[at] < 128 THEN s[at]
    ELSE BigEndian(SubSeq(s, at + 1, at + (s[at] % 128)))

\* A whole TLV of the given tag lies at the cursor of the last call, before
\* the reader's bound.
TLVAt(tag) ==
    /\ ret.pos0 + 1 <= ret.end
    /\ data[ret.pos0 + 1] = tag
    /\ WireLenValid(data, ret.pos0 + 2, ret.end)
    /\ ret.pos0 + 1 + WireLenSize(data, ret.pos0 + 2)
           + WireLenValue(data, ret.pos0 + 2) <= ret.end

\* Its content, and the 0-based index of the first byte after it.
TLVContent ==
    LET from == ret.pos0 + 1 + WireLenSize(data, ret.pos0 + 2)
    IN  SubSeq(data, from + 1, from + WireLenValue(data, ret.pos0 + 2))

TLVEnd == ret.pos0 + 1 + WireLenSize(data, ret.pos0 + 2)
              + WireLenValue(data, ret.pos0 + 2)

\* The last call returned the integer v.
ReturnedInt(v) ==
    /\ ret.out.err = "ok"
    /\ ~ret.out.none
    /\ ~ret.out.wide
    /\ ret.out.val = v

----------------------------------------------------------------------------
(* C1 *)

\* C1: emit_integer (n) on a fresh Encoder, then get_integer (k) on a Buf over
\* the k bytes of done (), returns n.
C1_IntegerRoundTrip ==
    (/\ call.op = "emit_integer"
     /\ ret.op = "get_integer"
     /\ ret.pos0 = 0
     /\ ret.arg = Len(data))
    => ReturnedInt(call.n)

----------------------------------------------------------------------------
(* C2 *)

\* C2: emit_length (n) on a fresh Encoder, then get_length () on a Buf over
\* done (), returns n and leaves the reader done; and for n < 0x80 the bytes
\* emitted are the one byte n.
C2_LengthRoundTrip ==
    /\ (/\ call.op = "emit_length"
        /\ ret.op = "get_length"
        /\ ret.pos0 = 0)
       => (ReturnedInt(call.n) /\ Buf_done(bufs[1]))
    /\ (call.op = "emit_length" /\ call.n < 128)
       => Encoder_done(r) = <<call.n>>

\* The short-form half of C2, which holds.
C2_ShortFormOneByte ==
    (call.op = "emit_length" /\ call.n < 128) => Encoder_done(r) = <<call.n>>

----------------------------------------------------------------------------
(* C3 *)

\* The bytes the last call asked for: one for pop_byte, its argument for pop,
\* pop_bytes and get_integer.
Requested ==
    IF ret.op = "pop_byte" THEN 1
    ELSE IF ret.op \in {"pop", "pop_bytes", "get_integer"} THEN ret.arg
    ELSE 0

\* 0 <= pos <= end <= len (data), for every reader.
BoundsInvariant ==
    \A i \in 1 .. Len(bufs) :
        0 <= bufs[i].pos /\ bufs[i].pos <= bufs[i].end /\ bufs[i].end <= Len(data)

\* No call reads a byte at or after its reader's bound.
ReadsBeforeEnd == \A k \in ret.out.rd : ret.pos0 <= k /\ k < ret.end

\* pop_byte, pop and pop_bytes fail with Underflow when asked for more bytes
\* than remain.
PrimitivesUnderflow ==
    (ret.op \in {"pop_byte", "pop", "pop_bytes"} /\ Requested > ret.end - ret.pos0)
    => ret.out.err = "Underflow"

\* C3: 0 <= pos <= end <= len (data) for every reader, no byte at an index
\* >= end is read, and a call that asks for more bytes than end - pos fails
\* with Underflow.
C3_BoundsSafety ==
    /\ BoundsInvariant
    /\ ReadsBeforeEnd
    /\ Requested > ret.end - ret.pos0 => ret.out.err = "Underflow"

----------------------------------------------------------------------------
(* C4 *)

\* C4: closing a scope puts, before everything emitted so far, the tag byte
\* and a length whose value is the number of bytes emitted since the scope
\* was entered.
C4_ScopeWraps ==
    call.op = "TLV.__exit__" =>
        LET out == Encoder_done(r)
        IN  /\ out[1] = call.tag
            /\ WireLenValid(out, 2, Len(out))
            /\ WireLenValue(out, 2) = call.before - call.start
            /\ Len(out) = 1 + WireLenSize(out, 2) + call.before

\* Encoder.length is the number of bytes of done ().
LengthIsTotal == length = Len(Encoder_done(r))

----------------------------------------------------------------------------
(* C5 *)

\* The caller's bounds reject v.
Outside(v) ==
    \/ ret.lo.some /\ v < ret.lo.v
    \/ ret.hi.some /\ v > ret.hi.v

\* C5: on a well-formed INTEGER TLV of value v, next_INTEGER (min, max) fails
\* with ConstraintViolation iff v < min or v > max, and returns v otherwise;
\* next_OCTET_STRING does the same with the length of the byte string.
C5_Constraints ==
    /\ (ret.op = "next_INTEGER" /\ TLVAt(TAG_INTEGER) /\ Len(TLVContent) \in 1 .. 4)
       => LET v == TwosValue(TLVContent)
          IN  IF Outside(v) THEN ret.out.err = "ConstraintViolation"
              ELSE ReturnedInt(v)
    /\ (ret.op = "next_OCTET_STRING" /\ TLVAt(TAG_OCTETSTRING))
       => IF Outside(Len(TLVContent)) THEN ret.out.err = "ConstraintViolation"
          ELSE ret.out.err = "ok" /\ ret.out.bytes = TLVContent

----------------------------------------------------------------------------
(* C6 *)

\* C6: on a first byte 0x80 | k, 1 <= k <= 4, with k bytes left after it,
\* get_length returns the big-endian value of the k bytes, 1 + k bytes on.
C6_LongForm ==
    (/\ ret.op = "get_length"
     /\ ret.pos0 + 1 <= ret.end
     /\ data[ret.pos0 + 1] > 128
     /\ WireLenValid(data, ret.pos0 + 1, ret.end))
    => /\ ReturnedInt(WireLenValue(data, ret.pos0 + 1))
       /\ ret.out.pos = ret.pos0 + WireLenSize(data, ret.pos0 + 1)

----------------------------------------------------------------------------
(* C7 *)

\* C7: emit_integer (n) emits the shortest big-endian two's complement of n:
\* bytes of value n, 0x00 alone for 0, no 0x00 before a clear high bit and no
\* 0xff before a set high bit.
C7_MinimalInteger ==
    call.op = "emit_integer" =>
        LET bs == Encoder_done(r)
        IN  /\ Len(bs) >= 1
            /\ Len(r) = 1
            /\ length = Len(bs)
            /\ TwosValue(bs) = call.n
            /\ call.n = 0 => bs = <<0>>
            /\ Len(bs) >= 2 => ~(bs[1] = 0 /\ bs[2] < 128)
            /\ Len(bs) >= 2 => ~(bs[1] = 255 /\ bs[2] >= 128)

\* emit_integer (128) has emitted 00 80.
C7_Witness == call.op = "emit_integer" /\ call.n = 128 /\ Encoder_done(r) = <<0, 128>>

----------------------------------------------------------------------------
(* C8 *)

\* The last call decodes a length, and b is the first byte of it: the byte at
\* the cursor for get_length, the byte after the expected tag for the others.
LengthByteAt ==
    IF ret.op = "get_length" THEN ret.pos0
    ELSE ret.pos0 + 1

DecodesLength ==
    /\ ret.op \in {"get_length", "next", "next_INTEGER", "next_OCTET_STRING",
                   "next_ENUMERATED"}
    /\ LengthByteAt + 1 <= ret.end
    /\ ret.op = "next" => data[ret.pos0 + 1] = ret.arg
    /\ ret.op = "next_INTEGER" => data[ret.pos0 + 1] = TAG_INTEGER
    /\ ret.op = "next_OCTET_STRING" => data[ret.pos0 + 1] = TAG_OCTETSTRING
    /\ ret.op = "next_ENUMERATED" => data[ret.pos0 + 1] = TAG_ENUMERATED

LengthByte == data[LengthByteAt + 1]

\* C8: a call that decodes a length fails with IndefiniteLength on a first
\* length byte 0x80, and with ElementTooLarge on a first length byte above
\* 0x80 whose low seven bits are more than 4.
C8_MalformedLength ==
    DecodesLength =>
        /\ LengthByte = 128 => ret.out.err = "IndefiniteLength"
        /\ (LengthByte > 128 /\ LengthByte % 128 > 4)
           => ret.out.err = "ElementTooLarge"

\* next_OCTET_STRING has failed with ElementTooLarge on the length byte 0x85.
C8_Witness ==
    /\ DecodesLength
    /\ ret.op = "next_OCTET_STRING"
    /\ LengthByte = 133
    /\ ret.out.err = "ElementTooLarge"

----------------------------------------------------------------------------
(* C9 *)

\* C9: get_integer (length) that succeeds, with length bytes before the bound,
\* has moved the cursor by length; and next_INTEGER or next_ENUMERATED that
\* succeeds on a well-formed TLV leaves the cursor after the TLV.
C9_ConsumesContent ==
    /\ (/\ ret.op = "get_integer"
        /\ ret.arg <= ret.end - ret.pos0
        /\ ret.out.err = "ok")
       => ret.out.pos = ret.pos0 + ret.arg
    /\ (ret.op = "next_INTEGER" /\ ret.out.err = "ok" /\ TLVAt(TAG_INTEGER))
       => ret.out.pos = TLVEnd
    /\ (ret.op = "next_ENUMERATED" /\ ret.out.err = "ok" /\ TLVAt(TAG_ENUMERATED))
       => ret.out.pos = TLVEnd

----------------------------------------------------------------------------
(* C10 *)

\* C10: on the BOOLEAN TLV 01 01 v, next_BOOLEAN returns false iff v = 0 and
\* leaves the cursor after v.
C10_Boolean ==
    (/\ ret.op = "next_BOOLEAN"
     /\ ret.pos0 + 3 <= ret.end
     /\ data[ret.pos0 + 1] = TAG_BOOLEAN
     /\ data[ret.pos0 + 2] = 1)
    => /\ ret.out.err = "ok"
       /\ ret.out.val = 0 <=> data[ret.pos0 + 3] = 0
       /\ ret.out.pos = ret.pos0 + 3

====
